---- MODULE Spec2Model ----
(***************************************************************************)
(* Model of pte_decode.decoding: the decoder factory (get_decoder), the    *)
(* Decoder base class with its balancer (_balance_samples), and the        *)
(* backends' construction, fit and prediction methods.                     *)
(*                                                                         *)
(* Python values are modelled as follows.                                  *)
(*   str            a sequence of one-character strings                    *)
(*   None/str/bool  a tagged record [t, s, b] (NoneV, Str(s), Bool(b))     *)
(*   ndarray        a sequence; a data row is the natural number that      *)
(*                  identifies its feature vector (0 = a synthetic row)    *)
(*   call outcome   [calls, status |-> "return" | "raise", err, value]     *)
(*                  where calls lists the external capabilities invoked    *)
(*                  and, after one of them, the exception it raised        *)
(*   path           a sequence of characters, parsed as pathlib parses it  *)
(* CATB, Dummy, LR, QDA and XGB leave fit and save_model undefined and     *)
(* cannot be instantiated; SpecBackends runs their methods on instances of *)
(* derived classes that define both (ConstructSubclass).                   *)
(* Every record constructor lists its fields in the order in which the     *)
(* field names first occur in this module, the order TLC keeps them in.    *)
(***************************************************************************)
EXTENDS Integers, Sequences, FiniteSets, TLC

VARIABLES dec, res

vars == <<dec, res>>

(* ------------------------------ bounds -------------------------------- *)

MaxRows == 4

MaxGroups == 2

(* ------------------------------ strings ------------------------------- *)

UpperCase ==
  <<"A","B","C","D","E","F","G","H","I","J","K","L","M",
    "N","O","P","Q","R","S","T","U","V","W","X","Y","Z">>

LowerCase ==
  <<"a","b","c","d","e","f","g","h","i","j","k","l","m",
    "n","o","p","q","r","s","t","u","v","w","x","y","z">>

(* the lower-case form of each upper-case letter *)
LowerOf ==
  [c \in {UpperCase[i] : i \in DOMAIN UpperCase} |->
     LowerCase[CHOOSE i \in DOMAIN UpperCase : UpperCase[i] = c]]

LowerChar(c) == IF c \in DOMAIN LowerOf THEN LowerOf[c] ELSE c

lower_identity(s) == s

lower(s) == [i \in DOMAIN s |-> LowerChar(s[i])]

s_catboost == <<"c","a","t","b","o","o","s","t">>
s_dummy == <<"d","u","m","m","y">>
s_lda == <<"l","d","a">>
s_lr == <<"l","r">>
s_qda == <<"q","d","a">>
s_xgb == <<"x","g","b">>
s_balanced_accuracy ==
  <<"b","a","l","a","n","c","e","d","_","a","c","c","u","r","a","c","y">>
s_log_loss == <<"l","o","g","_","l","o","s","s">>
s_oversample == <<"o","v","e","r","s","a","m","p","l","e">>
s_smote == <<"s","m","o","t","e">>
s_borderline_smote ==
  <<"b","o","r","d","e","r","l","i","n","e","_","s","m","o","t","e">>
s_adasyn == <<"a","d","a","s","y","n">>
s_undersample == <<"u","n","d","e","r","s","a","m","p","l","e">>
s_balance_weights ==
  <<"b","a","l","a","n","c","e","_","w","e","i","g","h","t","s">>
s_weight == <<"w","e","i","g","h","t">>

(* ------------------------- None / str / bool -------------------------- *)

NoneV == [s |-> <<>>, t |-> "none", b |-> FALSE]
Str(s) == [s |-> s, t |-> "str", b |-> FALSE]
Bool(b) == [s |-> <<>>, t |-> "bool", b |-> b]

(* ------------------------------ outcomes ------------------------------ *)

NoErr == [type |-> "", args0 |-> "", input_value |-> NoneV, allowed |-> {}]

Return(v, calls) ==
  [calls |-> calls, status |-> "return", err |-> NoErr, value |-> v]

(* args0 is the exception's args[0], its message *)
RaiseMsg(type, args0, input_value, allowed, calls) ==
  [calls |-> calls, status |-> "raise",
   err |-> [type |-> type, args0 |-> args0, input_value |-> input_value,
            allowed |-> allowed],
   value |-> NoneV]

Raise(type, input_value, allowed, calls) ==
  RaiseMsg(type, "", input_value, allowed, calls)

(* ------------------------------ Decoder ------------------------------- *)

NoModel ==
  [set |-> FALSE, cls |-> "", fitted |-> FALSE, X |-> <<>>, y |-> <<>>,
   eval_set |-> <<>>]

Unset == [v |-> <<>>, set |-> FALSE]

Val(x) == [v |-> x, set |-> TRUE]

NoDecoder ==
  [cls |-> "", exists |-> FALSE, scoring |-> "", balancing |-> NoneV,
   optimize |-> FALSE, model |-> NoModel, data_train |-> Unset,
   labels_train |-> Unset, groups_train |-> Unset]

(* Decoder's abstract methods, and the methods each backend class defines *)
AbstractMethods == {"fit", "save_model"}

MethodsDefined(cls) ==
  CASE cls = "CATB" -> {"fit_and_predict", "_bayesian_optimization", "_bo_tune"}
    [] cls = "LDA" -> {"__post_init__", "fit", "predict", "save_model"}
    [] cls = "LR" -> {"fit_and_predict", "_bayesian_optimization", "_bo_tune"}
    [] cls = "Dummy" -> {"fit_and_predict", "get_score"}
    [] cls = "QDA" -> {"__post_init__", "fit_and_predict"}
    [] cls = "XGB" -> {"fit_and_predict", "_bayesian_optimization", "_bo_tune"}

(* the dataclass-generated __init__: the init=False fields stay unset *)
Decoder_init(cls, scoring, balancing, optimize) ==
  [cls |-> cls, exists |-> TRUE, scoring |-> scoring, balancing |-> balancing,
   optimize |-> optimize, model |-> NoModel, data_train |-> Unset,
   labels_train |-> Unset, groups_train |-> Unset]

post_init_no_optimize_check(self) ==
  IF self.cls \in {"LDA", "QDA"} /\ self.balancing = Str(s_balance_weights)
  THEN "ValueError"
  ELSE ""

(* LDA.__post_init__ and QDA.__post_init__: "" when nothing is raised *)
post_init(self) ==
  IF "__post_init__" \notin MethodsDefined(self.cls) THEN ""
  ELSE IF self.balancing = Str(s_balance_weights) THEN "ValueError"
  ELSE IF self.optimize THEN "ValueError"
  ELSE ""

(* cls(scoring=..., balancing=..., optimize=...): ABC refuses to           *)
(* instantiate a class that leaves an abstract method undefined, then the  *)
(* generated __init__ runs and calls __post_init__.                        *)
Construct(cls, scoring, balancing, optimize) ==
  LET self == Decoder_init(cls, scoring, balancing, optimize)
      call == <<cls>>
  IN IF AbstractMethods \ MethodsDefined(cls) # {}
     THEN Raise("TypeError", NoneV, {}, call)
     ELSE IF post_init(self) # ""
     THEN Raise(post_init(self), NoneV, {}, call)
     ELSE Return(self, call)

(* ------------------------------ factory ------------------------------- *)

classifiers ==
  [k \in {s_catboost, s_dummy, s_lda, s_lr, s_qda, s_xgb} |->
     CASE k = s_catboost -> "CATB"
       [] k = s_dummy -> "Dummy"
       [] k = s_lda -> "LDA"
       [] k = s_lr -> "LR"
       [] k = s_qda -> "QDA"
       [] k = s_xgb -> "XGB"]

scoring_methods ==
  [k \in {s_balanced_accuracy, s_log_loss} |->
     IF k = s_balanced_accuracy THEN "_get_balanced_accuracy"
     ELSE "_get_log_loss"]

(* d.keys(): a dict_keys view; it has no attribute named values *)
dict_keys(d) == [pytype |-> "dict_keys", keys |-> DOMAIN d]

ScoringMethodNotFoundError(input_value, allowed) ==
  Raise("ScoringMethodNotFoundError", input_value, allowed, <<>>)

(* __init__ reads allowed.values, which only a dict has *)
DecoderNotFoundError(input_value, allowed) ==
  IF allowed.pytype = "dict"
  THEN Raise("DecoderNotFoundError", input_value, allowed, <<>>)
  ELSE Raise("AttributeError", NoneV, {}, <<>>)

get_decoder(classifier, scoring, balancing, optimize) ==
  LET c == lower(classifier)
      b == IF balancing.t = "str" THEN Str(lower(balancing.s)) ELSE balancing
      s == lower(scoring)
  IN IF c \notin DOMAIN classifiers
     THEN DecoderNotFoundError(c, dict_keys(classifiers))
     ELSE IF s \notin DOMAIN scoring_methods
     THEN ScoringMethodNotFoundError(s, dict_keys(scoring_methods))
     ELSE Construct(classifiers[c], scoring_methods[s], b, optimize)

(* ------------------------------ balancer ------------------------------ *)

RECURSIVE SumSeq(_)
SumSeq(s) == IF s = <<>> THEN 0 ELSE Head(s) + SumSeq(Tail(s))

(* np.mean(labels) != 0.5: the mean of an empty vector is nan *)
MeanIsNotHalf(labels) == Len(labels) = 0 \/ 2 * SumSeq(labels) # Len(labels)

Rows(labels, c) == {i \in DOMAIN labels : labels[i] = c}

Classes(labels) == {labels[i] : i \in DOMAIN labels}

MajoritySize(labels) ==
  CHOOSE m \in 0..Len(labels) :
    /\ \E c \in Classes(labels) : Cardinality(Rows(labels, c)) = m
    /\ \A c \in Classes(labels) : Cardinality(Rows(labels, c)) <= m

RECURSIVE Keep(_, _, _)
Keep(s, idx, i) ==
  IF i > Len(s) THEN <<>>
  ELSE (IF i \in idx THEN <<s[i]>> ELSE <<>>) \o Keep(s, idx, i + 1)

(* the rows drawn to fill class c up by k rows: copies of rows of c, or *)
(* k synthetic rows                                                     *)
Drawn(data, labels, c, k, synthetic) ==
  IF synthetic THEN {[i \in 1..k |-> 0]}
  ELSE {[i \in 1..k |-> data[f[i]]] : f \in [1..k -> Rows(labels, c)]}

RECURSIVE Grow(_, _, _, _, _)
(* append to acc, class by class, the rows that bring every class of    *)
(* todo to the size of the largest class of (data, labels)              *)
Grow(data, labels, todo, synthetic, acc) ==
  IF todo = {} THEN {acc}
  ELSE LET c == CHOOSE x \in todo : \A y \in todo : x <= y
           k == MajoritySize(labels) - Cardinality(Rows(labels, c))
       IN UNION {Grow(data, labels, todo \ {c}, synthetic,
                      [labels |-> acc.labels \o [i \in 1..k |-> c],
                       data |-> acc.data \o extra]) :
                   extra \in Drawn(data, labels, c, k, synthetic)}

(* fit_resample of the over-samplers, sampling_strategy="auto": every    *)
(* class but the largest is filled up to the size of the largest, with   *)
(* copies of its own rows (RandomOverSampler) or with synthetic rows     *)
OverSampled(data, labels, synthetic) ==
  LET m == MajoritySize(labels)
      small == {c \in Classes(labels) : Cardinality(Rows(labels, c)) < m}
  IN Grow(data, labels, small, synthetic, [labels |-> labels, data |-> data])

(* fit_resample of RandomUnderSampler: every class is cut down to the    *)
(* size of the smallest                                                  *)
UnderSampled(data, labels) ==
  LET n == CHOOSE m \in 0..Len(labels) :
             /\ \E c \in Classes(labels) : Cardinality(Rows(labels, c)) = m
             /\ \A c \in Classes(labels) : Cardinality(Rows(labels, c)) >= m
      picks == {idx \in SUBSET DOMAIN labels :
                  \A c \in Classes(labels) :
                    Cardinality(idx \cap Rows(labels, c)) = n}
  IN {[labels |-> Keep(labels, idx, 1), data |-> Keep(data, idx, 1)] :
        idx \in picks}

NoSamplesMsg == "No samples will be generated with the provided ratio settings."

(* The resampling capability, as the balancer sees it: it returns a       *)
(* resampled dataset or raises.  A target with fewer than two classes is  *)
(* always refused; ADASYN may also refuse with NoSamplesMsg.              *)
Resample(sampler, data, labels) ==
  LET done == IF Cardinality(Classes(labels)) < 2 THEN {}
              ELSE IF sampler = "RandomUnderSampler" THEN UnderSampled(data, labels)
              ELSE OverSampled(data, labels, sampler # "RandomOverSampler")
  IN {[type |-> "", args0 |-> "", labels |-> r.labels, data |-> r.data,
       ok |-> TRUE] : r \in done}
     \cup {[type |-> "ValueError", args0 |-> "other", labels |-> <<>>,
            data |-> <<>>, ok |-> FALSE]}
     \cup (IF sampler = "ADASYN"
           THEN {[type |-> "ValueError", args0 |-> NoSamplesMsg, labels |-> <<>>,
                  data |-> <<>>, ok |-> FALSE],
                 [type |-> "RuntimeError", args0 |-> NoSamplesMsg, labels |-> <<>>,
                  data |-> <<>>, ok |-> FALSE]}
           ELSE {})

SwNone == [none |-> TRUE, w |-> <<>>]

(* compute_sample_weight(class_weight="balanced", y): the weight of a row *)
(* of class c is n_samples / (n_classes * count(c)), kept as <<num, den>> *)
compute_sample_weight(labels) ==
  [none |-> FALSE,
   w |-> [i \in DOMAIN labels |->
            <<Len(labels),
              Cardinality(Classes(labels)) * Cardinality(Rows(labels, labels[i]))>>]]

Balanced(data, labels, sample_weight, calls) ==
  Return([labels |-> labels, data |-> data, sample_weight |-> sample_weight],
         calls)

balancing_methods ==
  <<Str(s_oversample), Str(s_smote), Str(s_borderline_smote), Str(s_adasyn),
    Str(s_undersample), Str(s_balance_weights), Bool(TRUE), Bool(FALSE)>>

(* the entry of the call log for an exception raised by a capability *)
Raised(type, args0) == "raised " \o type \o ": " \o args0

(* the call log of one fit_resample call with result r *)
Sampling(sampler, r) ==
  IF r.ok THEN <<sampler>> ELSE <<sampler, Raised(r.type, r.args0)>>

(* ros.fit_resample(data, labels) outside any try block *)
FitResample(sampler, data, labels) ==
  {IF r.ok THEN Balanced(r.data, r.labels, SwNone, Sampling(sampler, r))
   ELSE RaiseMsg(r.type, r.args0, NoneV, {}, Sampling(sampler, r)) :
     r \in Resample(sampler, data, labels)}

FitResampleAdasyn_any_ValueError(data, labels) ==
  {IF r.ok THEN Balanced(r.data, r.labels, SwNone, Sampling("ADASYN", r))
   ELSE IF r.type = "ValueError"
   THEN Balanced(data, labels, SwNone, Sampling("ADASYN", r))
   ELSE RaiseMsg(r.type, r.args0, NoneV, {}, Sampling("ADASYN", r)) :
     r \in Resample("ADASYN", data, labels)}

(* the adasyn branch: a ValueError with exactly NoSamplesMsg is dropped *)
FitResampleAdasyn(data, labels) ==
  {IF r.ok THEN Balanced(r.data, r.labels, SwNone, Sampling("ADASYN", r))
   ELSE IF r.type = "ValueError" /\ r.args0 = NoSamplesMsg
   THEN Balanced(data, labels, SwNone, Sampling("ADASYN", r))
   ELSE RaiseMsg(r.type, r.args0, NoneV, {}, Sampling("ADASYN", r)) :
     r \in Resample("ADASYN", data, labels)}

(* the if/elif chain on method, lines 127-160 *)
BalanceByMethod(data, labels, method) ==
  IF method = Str(s_oversample) THEN FitResample("RandomOverSampler", data, labels)
  ELSE IF method = Str(s_smote) THEN FitResample("SMOTE", data, labels)
  ELSE IF method = Str(s_borderline_smote)
  THEN FitResample("BorderlineSMOTE", data, labels)
  ELSE IF method = Str(s_adasyn) THEN FitResampleAdasyn(data, labels)
  ELSE IF method = Str(s_undersample)
  THEN FitResample("RandomUnderSampler", data, labels)
  ELSE IF method = Str(s_weight)
  THEN {Balanced(data, labels, compute_sample_weight(labels),
                 <<"compute_sample_weight">>)}
  ELSE {RaiseMsg("BalancingMethodNotFoundError",
                 "Input balancing method is not an allowed value.",
                 method, balancing_methods, <<>>)}

balance_samples_no_skip(data, labels, method) ==
  BalanceByMethod(data, labels, method)

(* Decoder._balance_samples: the set of outcomes the call can have *)
balance_samples(data, labels, method) ==
  IF MeanIsNotHalf(labels) THEN BalanceByMethod(data, labels, method)
  ELSE {Balanced(data, labels, SwNone, <<>>)}

(* ------------------------- fitting and predicting --------------------- *)

(* a new estimator; eval_set is the evaluation set its fit was given *)
NewModel(cls) ==
  [set |-> TRUE, cls |-> cls, fitted |-> FALSE, X |-> <<>>, y |-> <<>>,
   eval_set |-> <<>>]

(* model.fit(X, y) of the external estimator: it fits the handle in place *)
(* or raises and leaves it unfitted                                       *)
ModelFit(model, X, y) ==
  {[model |-> [model EXCEPT !.fitted = TRUE, !.X = X, !.y = y], ok |-> TRUE],
   [model |-> model, ok |-> FALSE]}

(* LDA.fit: the pairs of the call's outcome and the Decoder it leaves *)
LDA_fit(self, data_train, labels, groups) ==
  UNION {
    IF b.status = "raise" THEN {[self |-> self, out |-> b]}
    ELSE LET s1 == [self EXCEPT !.data_train = Val(b.value.data),
                                !.labels_train = Val(b.value.labels)]
             s2 == [s1 EXCEPT !.model = NewModel("LinearDiscriminantAnalysis")]
             calls == b.calls \o <<"LinearDiscriminantAnalysis",
                                   "LinearDiscriminantAnalysis.fit">>
         IN {IF f.ok THEN [self |-> [s2 EXCEPT !.model = f.model],
                           out |-> Return(NoneV, calls)]
             ELSE [self |-> s2, out |-> Raise("ValueError", NoneV, {}, calls)] :
               f \in ModelFit(s2.model, s1.data_train.v, s1.labels_train.v)} :
    b \in balance_samples(data_train, labels, self.balancing)}

(* model.<method>(data) of the external estimator *)
ModelCall(model, method, data) ==
  IF model.fitted
  THEN Return([model |-> model, data |-> data, by |-> method],
              <<model.cls \o "." \o method>>)
  ELSE Raise("NotFittedError", NoneV, {}, <<model.cls \o "." \o method>>)

DelegateOrNone(self, method, data) ==
  IF ~ self.model.set THEN Return(NoneV, <<>>)
  ELSE ModelCall(self.model, method, data)

(* self.model.<method>(data): reading an unset field raises *)
Delegate(self, method, data) ==
  IF ~ self.model.set THEN Raise("AttributeError", NoneV, {}, <<>>)
  ELSE ModelCall(self.model, method, data)

predict(self, data) == Delegate(self, "predict", data)

predict_proba(self, data) == Delegate(self, "predict_proba", data)

decision_function(self, data) == Delegate(self, "decision_function", data)

Scored(metric, label_test, p) ==
  IF p.status = "raise" THEN p
  ELSE Return([by |-> metric, y_true |-> label_test, y_pred |-> p.value],
              p.calls \o <<metric>>)

get_balanced_accuracy(model, data_test, label_test) ==
  Scored("balanced_accuracy_score", label_test,
         ModelCall(model, "predict", data_test))

get_log_loss(model, data_test, label_test) ==
  Scored("log_loss", label_test, ModelCall(model, "predict_proba", data_test))

(* Decoder.get_score: self.scoring(self.model, data_test, label_test) *)
get_score(self, data_test, label_test) ==
  IF ~ self.model.set THEN Raise("AttributeError", NoneV, {}, <<>>)
  ELSE IF self.scoring = "_get_balanced_accuracy"
  THEN get_balanced_accuracy(self.model, data_test, label_test)
  ELSE get_log_loss(self.model, data_test, label_test)

(* range(0, 100) of Dummy.get_score *)
NumScores == 100

Dummy_get_score_once(self, data_test, label_test) ==
  LET one == get_score(self, data_test, label_test)
  IN IF one.status = "raise" THEN one
     ELSE Return([mean_of |-> <<one.value>>], one.calls)

(* Dummy.get_score: np.mean of NumScores evaluations of                   *)
(* self.scoring(self.model, data_test, label_test); the first one that    *)
(* raises ends the call                                                    *)
Dummy_get_score(self, data_test, label_test) ==
  LET one == get_score(self, data_test, label_test)
  IN IF one.status = "raise" THEN one
     ELSE Return([mean_of |-> [i \in 1..NumScores |-> one.value]],
                 [i \in 1..(NumScores * Len(one.calls)) |->
                    one.calls[((i - 1) % Len(one.calls)) + 1]])

(* d.get_score(data_test, label_test), resolved on self's class *)
Decoder_get_score(self, data_test, label_test) ==
  IF "get_score" \in MethodsDefined(self.cls)
  THEN Dummy_get_score(self, data_test, label_test)
  ELSE get_score(self, data_test, label_test)

(* ------------------------------- inputs ------------------------------- *)

UpperOf ==
  [c \in {LowerCase[i] : i \in DOMAIN LowerCase} |->
     UpperCase[CHOOSE i \in DOMAIN LowerCase : LowerCase[i] = c]]

UpperChar(c) == IF c \in DOMAIN UpperOf THEN UpperOf[c] ELSE c

upper(s) == [i \in DOMAIN s |-> UpperChar(s[i])]

capitalize(s) == [i \in DOMAIN s |-> IF i = 1 THEN UpperChar(s[i]) ELSE s[i]]

s_bogus == <<"b","o","g","u","s">>
s_auc == <<"a","u","c">>

ClassifierNames ==
  {s_catboost, s_dummy, s_lda, upper(s_lda), s_lr, capitalize(s_qda),
   upper(s_xgb), s_bogus, upper(s_bogus)}

ScoringNames ==
  {upper(s_balanced_accuracy), s_log_loss, capitalize(s_log_loss), s_auc}

BalancingNames ==
  {NoneV, Str(s_oversample), Str(capitalize(s_oversample)),
   Str(s_balance_weights), Str(upper(s_balance_weights))}

DirectClasses == {"LDA", "QDA"}

ScoringFunctions == {"_get_balanced_accuracy", "_get_log_loss"}

Methods ==
  {balancing_methods[i] : i \in DOMAIN balancing_methods}
  \cup {NoneV, Str(s_weight), Str(s_bogus), Str(upper(s_oversample))}

LabelValues == {0, 1}

(* labelled data of 1..MaxRows rows; row i has the feature vector i *)
Samples ==
  UNION {{[labels |-> l, data |-> [i \in 1..n |-> i]] :
            l \in [1..n -> LabelValues]} : n \in 1..MaxRows}

(* the smaller pools the lifecycle specification draws from *)
MaxFitRows == 3

(* the longest path, in characters, handed to save_model *)
MaxPathLen == 3

(* training sets: the rows are dealt to the MaxGroups groups in turn *)
FitSets ==
  UNION {{[labels |-> l, data |-> [i \in 1..n |-> i],
           groups |-> [i \in 1..n |-> ((i - 1) % MaxGroups) + 1]] :
            l \in [1..n -> LabelValues]} : n \in 1..MaxFitRows}

TestSets ==
  {[labels |-> <<1>>, data |-> <<7>>], [labels |-> <<0, 1>>, data |-> <<8, 9>>]}

LifeClassifiers == {s_lda, upper(s_xgb)}

LifeScorings == {s_log_loss, upper(s_balanced_accuracy)}

LifeBalancings ==
  {NoneV, Str(capitalize(s_oversample)), Str(s_weight), Str(s_bogus)}

(* ------------------------------- actions ------------------------------ *)

Init ==
  /\ dec = NoDecoder
  /\ res = [out |-> Return(NoneV, <<>>), op |-> "", args |-> <<>>]

(* d = get_decoder(classifier, scoring, balancing, optimize) *)
GetDecoderCall(CP, SP, BP) ==
  \E c \in CP, s \in SP, b \in BP, o \in BOOLEAN :
    LET out == get_decoder(c, s, b, o)
    IN /\ res' = [out |-> out,
                  op |-> "get_decoder",
                  args |-> [scoring |-> s, balancing |-> b, optimize |-> o,
                            classifier |-> c]]
       /\ dec' = IF out.status = "return" THEN out.value ELSE dec

(* d = CLS(scoring=f, balancing=b, optimize=o) *)
ConstructCall ==
  \E cls \in DirectClasses, f \in ScoringFunctions, b \in BalancingNames,
     o \in BOOLEAN :
    LET out == Construct(cls, f, b, o)
    IN /\ res' = [out |-> out,
                  op |-> "construct",
                  args |-> [cls |-> cls, scoring |-> f, balancing |-> b,
                            optimize |-> o]]
       /\ dec' = IF out.status = "return" THEN out.value ELSE dec

(* Decoder._balance_samples(data, labels, method), a static method *)
BalanceCall ==
  \E d \in Samples, m \in Methods :
    \E out \in balance_samples(d.data, d.labels, m) :
      /\ res' = [out |-> out,
                 op |-> "_balance_samples",
                 args |-> [labels |-> d.labels, data |-> d.data, method |-> m]]
      /\ UNCHANGED dec

(* d.fit(data_train, labels, groups) *)
FitCall ==
  /\ dec.exists
  /\ "fit" \in MethodsDefined(dec.cls)
  /\ \E d \in FitSets :
       \E r \in LDA_fit(dec, d.data, d.labels, d.groups) :
         /\ res' = [out |-> r.out,
                    op |-> "fit",
                    args |-> [data_train |-> d.data, labels |-> d.labels,
                              groups |-> d.groups]]
         /\ dec' = r.self

Called(op, t, out) ==
  /\ res' = [out |-> out,
             op |-> op,
             args |-> [self |-> dec, labels |-> t.labels, data |-> t.data]]
  /\ UNCHANGED dec

PredictCall ==
  dec.exists /\ \E t \in TestSets : Called("predict", t, predict(dec, t.data))

PredictProbaCall ==
  dec.exists /\ \E t \in TestSets :
    Called("predict_proba", t, predict_proba(dec, t.data))

DecisionFunctionCall ==
  dec.exists /\ \E t \in TestSets :
    Called("decision_function", t, decision_function(dec, t.data))

GetScoreCall ==
  dec.exists /\ \E t \in TestSets :
    Called("get_score", t, Decoder_get_score(dec, t.data, t.labels))

(* the factory and the constructors *)
NextFactory ==
  \/ GetDecoderCall(ClassifierNames, ScoringNames, BalancingNames)
  \/ ConstructCall

SpecFactory == Init /\ [][NextFactory]_vars

(* the balancer on its own *)
NextBalancer == BalanceCall

SpecBalancer == Init /\ [][NextBalancer]_vars

(* the life of one Decoder: made by the factory, fitted, used *)
Next ==
  \/ GetDecoderCall(LifeClassifiers, LifeScorings, LifeBalancings)
  \/ FitCall
  \/ PredictCall
  \/ PredictProbaCall
  \/ DecisionFunctionCall
  \/ GetScoreCall

Spec == Init /\ [][Next]_vars

(* ------------------------------- claims ------------------------------- *)

(* case folding and the allow-list, as the claims speak of them *)
CaseFold(s) == [i \in DOMAIN s |-> LowerChar(s[i])]

SameUpToCase(a, b) ==
  Len(a) = Len(b) /\ \A i \in DOMAIN a : LowerChar(a[i]) = LowerChar(b[i])

AllowedMethods == {balancing_methods[i] : i \in DOMAIN balancing_methods}

LabelMeanIsHalf(labels) == Len(labels) > 0 /\ 2 * SumSeq(labels) = Len(labels)

Registered(a) ==
  /\ CaseFold(a.classifier) \in DOMAIN classifiers
  /\ CaseFold(a.scoring) \in DOMAIN scoring_methods

(* C1: get_decoder with a registered classifier name, a registered scoring *)
(* name, balancing None and optimize False returns a fresh unfitted        *)
(* Decoder of the requested backend with the resolved scoring function.     *)
C1_FactoryReturnsDecoder ==
  (/\ res.op = "get_decoder"
   /\ Registered(res.args)
   /\ res.args.balancing = NoneV
   /\ ~ res.args.optimize)
  => /\ res.out.status = "return"
     /\ res.out.value.cls = classifiers[CaseFold(res.args.classifier)]
     /\ res.out.value.scoring = scoring_methods[CaseFold(res.args.scoring)]
     /\ ~ res.out.value.model.set
     /\ dec = res.out.value

(* C2: get_decoder with a classifier name outside the registry fails with  *)
(* DecoderNotFoundError carrying the name and the registry of valid names, *)
(* and constructs no Decoder.                                              *)
C2_UnknownClassifierError ==
  (/\ res.op = "get_decoder"
   /\ CaseFold(res.args.classifier) \notin DOMAIN classifiers)
  => /\ res.out.status = "raise"
     /\ res.out.err.type = "DecoderNotFoundError"
     /\ res.out.err.input_value = CaseFold(res.args.classifier)
     /\ res.out.err.allowed.keys = DOMAIN classifiers
     /\ res.out.calls = <<>>

AsksWeightsOrOptimize(balancing, optimize) ==
  balancing = Str(s_balance_weights) \/ optimize

C4_UnknownMethodRaises ==
  (/\ res.op = "_balance_samples"
   /\ res.args.method \notin AllowedMethods)
  => /\ res.out.status = "raise"
     /\ res.out.err.type = "BalancingMethodNotFoundError"
     /\ res.out.err.input_value = res.args.method
     /\ res.out.err.allowed = balancing_methods

(* C5: when the label mean is exactly 0.5, _balance_samples returns the    *)
(* data and labels it was given and sample_weight None, for every method,  *)
(* without calling a resampling capability and without raising.            *)
C5_BalancedIsNoOp ==
  (/\ res.op = "_balance_samples"
   /\ LabelMeanIsHalf(res.args.labels))
  => /\ res.out.status = "return"
     /\ res.out.value.data = res.args.data
     /\ res.out.value.labels = res.args.labels
     /\ res.out.value.sample_weight = SwNone
     /\ res.out.calls = <<>>

C5_Witness ==
  /\ res.op = "_balance_samples"
  /\ res.args.labels = <<0, 1, 1, 0>>
  /\ res.args.method = Str(s_bogus)
  /\ res.out.status = "return"
  /\ res.out.value.data = res.args.data

(* C6: _balance_samples with method "balance_weights" on labels whose mean *)
(* is not 0.5 returns data and labels unchanged and a sample_weight with   *)
(* one entry per row; it neither raises nor resamples.                     *)
C6_BalanceWeights ==
  (/\ res.op = "_balance_samples"
   /\ res.args.method = Str(s_balance_weights)
   /\ ~ LabelMeanIsHalf(res.args.labels))
  => /\ res.out.status = "return"
     /\ res.out.value.data = res.args.data
     /\ res.out.value.labels = res.args.labels
     /\ ~ res.out.value.sample_weight.none
     /\ Len(res.out.value.sample_weight.w) = Len(res.args.data)
     /\ res.out.calls = <<"compute_sample_weight">>

(* C7: get_decoder does not validate the balancing name: with registered   *)
(* classifier and scoring names and a balancing string outside the         *)
(* allow-list it returns a Decoder, and fitting that Decoder on imbalanced *)
(* data raises the balancing-method error for that value.                  *)
C7_BalancingSurfacesAtFit ==
  /\ (/\ res.op = "get_decoder"
      /\ Registered(res.args)
      /\ res.args.balancing.t = "str"
      /\ Str(CaseFold(res.args.balancing.s)) \notin AllowedMethods)
     => res.out.status = "return"
  /\ (/\ res.op = "fit"
      /\ dec.balancing.t = "str"
      /\ dec.balancing \notin AllowedMethods
      /\ ~ LabelMeanIsHalf(res.args.labels))
     => /\ res.out.status = "raise"
        /\ res.out.err.type = "BalancingMethodNotFoundError"
        /\ res.out.err.input_value = dec.balancing

MetricOf(scoring) ==
  IF scoring = "_get_balanced_accuracy" THEN "balanced_accuracy_score"
  ELSE "log_loss"

MethodOf(scoring) ==
  IF scoring = "_get_balanced_accuracy" THEN "predict" ELSE "predict_proba"

(* C8: on a Decoder whose model was never assigned, predict, predict_proba, *)
(* decision_function and get_score raise; a fit that returns leaves a       *)
(* fitted model handle, and on a fitted handle predict and predict_proba    *)
(* return what the handle's method returns and get_score returns the        *)
(* injected scoring function's value on that handle.                        *)
C8_Lifecycle ==
  /\ (/\ res.op \in {"predict", "predict_proba", "decision_function", "get_score"}
      /\ ~ dec.model.set)
     => res.out.status = "raise"
  /\ (res.op = "fit" /\ res.out.status = "return")
     => dec.model.set /\ dec.model.fitted
  /\ (/\ res.op \in {"predict", "predict_proba"}
      /\ dec.model.set /\ dec.model.fitted)
     => /\ res.out.status = "return"
        /\ res.out.value =
             [model |-> dec.model, data |-> res.args.data, by |-> res.op]
  /\ (/\ res.op = "get_score"
      /\ dec.model.set /\ dec.model.fitted)
     => /\ res.out.status = "return"
        /\ res.out.value =
             [by |-> MetricOf(dec.scoring), y_true |-> res.args.labels,
              y_pred |-> [model |-> dec.model, data |-> res.args.data,
                          by |-> MethodOf(dec.scoring)]]

C8_Witness ==
  /\ res.op = "predict_proba"
  /\ dec.model.set /\ dec.model.fitted
  /\ dec.model.y = <<0, 1, 1>>
  /\ res.out.status = "return"
  /\ res.out.value.model = dec.model

(* C9: with a registered classifier name and a scoring name outside the    *)
(* scoring registry, get_decoder fails with ScoringMethodNotFoundError     *)
(* carrying the value and the allowed names and constructs no Decoder;     *)
(* when both names are unknown the classifier error is the one reported.   *)
C9_UnknownScoringError ==
  /\ (/\ res.op = "get_decoder"
      /\ CaseFold(res.args.classifier) \in DOMAIN classifiers
      /\ CaseFold(res.args.scoring) \notin DOMAIN scoring_methods)
     => /\ res.out.status = "raise"
        /\ res.out.err.type = "ScoringMethodNotFoundError"
        /\ res.out.err.input_value = CaseFold(res.args.scoring)
        /\ res.out.err.allowed.keys = DOMAIN scoring_methods
        /\ res.out.calls = <<>>
  /\ (/\ res.op = "get_decoder"
      /\ CaseFold(res.args.classifier) \notin DOMAIN classifiers
      /\ CaseFold(res.args.scoring) \notin DOMAIN scoring_methods)
     => /\ res.out.status = "raise"
        /\ res.out.err.type = "DecoderNotFoundError"

SameOutcome(o1, o2) ==
  /\ o1.status = o2.status
  /\ o1.err.type = o2.err.type
  /\ o1.status = "return" => o1.value = o2.value

(* C10: two get_decoder calls whose classifier, scoring and balancing      *)
(* names differ only in letter case have the same outcome: the same        *)
(* Decoder (backend, scoring function, lower-cased balancing) or the same  *)
(* error type; a balancing of None is stored as None.                      *)
C10_CaseInsensitive ==
  res.op = "get_decoder"
  => /\ \A c \in ClassifierNames, s \in ScoringNames, b \in BalancingNames :
          (/\ SameUpToCase(c, res.args.classifier)
           /\ SameUpToCase(s, res.args.scoring)
           /\ b.t = res.args.balancing.t
           /\ SameUpToCase(b.s, res.args.balancing.s))
          => SameOutcome(get_decoder(c, s, b, res.args.optimize), res.out)
     /\ res.out.status = "return"
        => res.out.value.balancing =
             (IF res.args.balancing.t = "str"
              THEN Str(CaseFold(res.args.balancing.s)) ELSE NoneV)

C10_Witness ==
  /\ res.op = "get_decoder"
  /\ res.args.classifier = upper(s_lda)
  /\ res.args.scoring = capitalize(s_log_loss)
  /\ res.args.balancing = Str(capitalize(s_oversample))
  /\ res.out.status = "return"
  /\ dec = Decoder_init("LDA", "_get_log_loss", Str(s_oversample), FALSE)

(* C18: on labels whose mean is not 0.5, _balance_samples treats the       *)
(* methods False and None as a no-op, treats True as "oversample", and     *)
(* accepts every value of its own allow-list without the balancing-method  *)
(* error.                                                                  *)
C18_BooleanAndNoneMethods ==
  (/\ res.op = "_balance_samples"
   /\ ~ LabelMeanIsHalf(res.args.labels))
  => /\ res.args.method \in {Bool(FALSE), NoneV}
        => /\ res.out.status = "return"
           /\ res.out.value.data = res.args.data
           /\ res.out.value.labels = res.args.labels
           /\ res.out.value.sample_weight = SwNone
     /\ res.args.method = Bool(TRUE)
        => res.out \in balance_samples(res.args.data, res.args.labels,
                                       Str(s_oversample))
     /\ res.args.method \in AllowedMethods
        => res.out.err.type # "BalancingMethodNotFoundError"

CapabilityRaised(out) ==
  Len(out.calls) = 2 /\ out.calls[1] # "compute_sample_weight"

(* C19: with method "adasyn" on imbalanced labels, a ValueError of the     *)
(* resampler whose message is NoSamplesMsg makes _balance_samples return   *)
(* the data and labels it was given with sample_weight None; every other   *)
(* failure of the resampler reaches the caller unchanged; and for no other *)
(* method does the balancer return after a capability has raised.          *)
C19_AdasynSwallowsNoSamples ==
  (/\ res.op = "_balance_samples"
   /\ CapabilityRaised(res.out))
  => IF /\ res.args.method = Str(s_adasyn)
        /\ res.out.calls = <<"ADASYN", Raised("ValueError", NoSamplesMsg)>>
     THEN /\ res.out.status = "return"
          /\ res.out.value.data = res.args.data
          /\ res.out.value.labels = res.args.labels
          /\ res.out.value.sample_weight = SwNone
     ELSE /\ res.out.status = "raise"
          /\ res.out.calls[2] = Raised(res.out.err.type, res.out.err.args0)

C19_Witness ==
  /\ res.op = "_balance_samples"
  /\ res.args.method = Str(s_adasyn)
  /\ res.args.labels = <<0, 1, 1>>
  /\ res.out.calls = <<"ADASYN", Raised("ValueError", NoSamplesMsg)>>
  /\ res.out.status = "return"
  /\ res.out.value.data = res.args.data

(* -------------------------- validation split -------------------------- *)
UniqueGroups(groups) == {groups[i] : i \in DOMAIN groups}

(* _validate_shuffle_split with test_size None and a float train_size,    *)
(* here in percent: n_train = floor(train_size * n_groups)                *)
NTrain(n_groups, train_size) == (train_size * n_groups) \div 100

(* next(GroupShuffleSplit(n_splits=1, train_size).split(X, y, groups)):   *)
(* the pairs of row indices it can draw; none when it raises ValueError   *)
(* (train_size outside (0, 1), or an empty training side)                 *)
GroupShuffleSplit(groups, train_size) ==
  LET G == UniqueGroups(groups)
      n_train == NTrain(Cardinality(G), train_size)
  IN IF train_size <= 0 \/ train_size >= 100 \/ n_train = 0 THEN {}
     ELSE {[train_ind |-> {i \in DOMAIN groups : groups[i] \in T},
            val_ind |-> {i \in DOMAIN groups : groups[i] \notin T}] :
             T \in {S \in SUBSET G : Cardinality(S) = n_train}}

get_validation_split_val_labels(data, labels, ndim, groups, train_size) ==
  LET splits == GroupShuffleSplit(groups, train_size)
      call == <<"GroupShuffleSplit.split">>
  IN IF splits = {} THEN {Raise("ValueError", NoneV, {}, call)}
     ELSE IF ndim < 2 THEN {Raise("IndexError", NoneV, {}, call)}
     ELSE {Return([eval_set |-> <<[data_val |-> Keep(data, s.val_ind, 1),
                                   labels_val |-> Keep(labels, s.val_ind, 1)]>>,
                   data_train |-> Keep(data, s.train_ind, 1),
                   labels_train |-> Keep(labels, s.val_ind, 1)],
                  call) : s \in splits}

(* Decoder._get_validation_split: data.iloc[ind, :] selects rows of the   *)
(* frame; labels[ind, :] indexes two axes, which an array of one          *)
(* dimension refuses with IndexError                                      *)
get_validation_split(data, labels, ndim, groups, train_size) ==
  LET splits == GroupShuffleSplit(groups, train_size)
      call == <<"GroupShuffleSplit.split">>
  IN IF splits = {} THEN {Raise("ValueError", NoneV, {}, call)}
     ELSE IF ndim < 2 THEN {Raise("IndexError", NoneV, {}, call)}
     ELSE {Return([eval_set |-> <<[data_val |-> Keep(data, s.val_ind, 1),
                                   labels_val |-> Keep(labels, s.val_ind, 1)]>>,
                   data_train |-> Keep(data, s.train_ind, 1),
                   labels_train |-> Keep(labels, s.train_ind, 1)],
                  call) : s \in splits}

(* grouped datasets of 1..MaxFitRows rows; row i has the feature vector   *)
(* i; labels are a column (ndim 2) or a flat vector (ndim 1)              *)
SplitSets ==
  UNION {{[labels |-> [i \in 1..n |-> (i + k) % 2], data |-> [i \in 1..n |-> i],
           groups |-> g, ndim |-> nd] :
            k \in {0, 1}, nd \in {1, 2}, g \in [1..n -> 1..MaxGroups]} :
         n \in 1..MaxFitRows}

(* train fractions in percent *)
TrainSizes == {50, 80}

(* Decoder._get_validation_split(data, labels, groups, train_size) *)
SplitCall ==
  \E d \in SplitSets, t \in TrainSizes :
    \E out \in get_validation_split(d.data, d.labels, d.ndim, d.groups, t) :
      /\ res' = [out |-> out,
                 op |-> "_get_validation_split",
                 args |-> [labels |-> d.labels, data |-> d.data,
                           groups |-> d.groups, train_size |-> t,
                           ndim |-> d.ndim]]
      /\ UNCHANGED dec

(* the validation split on its own *)
NextSplit == SplitCall

SpecSplit == Init /\ [][NextSplit]_vars

RowsOf(s) == {s[i] : i \in DOMAIN s}

IndexOfRow(data, row) == CHOOSE j \in DOMAIN data : data[j] = row

(* C17: whenever _get_validation_split returns, eval_set is a list of      *)
(* exactly one (data_val, labels_val) pair, every input row is in exactly  *)
(* one of the training and the validation partition, each partition's      *)
(* labels are the labels of its rows, and no group has rows in both.       *)
C17_ValidationSplit ==
  (res.op = "_get_validation_split" /\ res.out.status = "return")
  => LET a == res.args
         v == res.out.value
         tr == v.data_train
         va == v.eval_set[1].data_val
     IN /\ Len(v.eval_set) = 1
        /\ RowsOf(tr) \cap RowsOf(va) = {}
        /\ RowsOf(tr) \cup RowsOf(va) = RowsOf(a.data)
        /\ Len(tr) + Len(va) = Len(a.data)
        /\ Len(v.labels_train) = Len(tr)
        /\ Len(v.eval_set[1].labels_val) = Len(va)
        /\ \A i \in DOMAIN tr :
             v.labels_train[i] = a.labels[IndexOfRow(a.data, tr[i])]
        /\ \A i \in DOMAIN va :
             v.eval_set[1].labels_val[i] = a.labels[IndexOfRow(a.data, va[i])]
        /\ {a.groups[IndexOfRow(a.data, r)] : r \in RowsOf(tr)}
             \cap {a.groups[IndexOfRow(a.data, r)] : r \in RowsOf(va)} = {}

C17_Witness ==
  /\ res.op = "_get_validation_split"
  /\ res.out.status = "return"
  /\ res.args.groups = <<1, 2, 1>>
  /\ res.out.value.data_train = <<1, 3>>
  /\ res.out.value.eval_set[1].data_val = <<2>>

(* C15: after every fit that returns, data_train, labels_train and         *)
(* groups_train are all set, have the same number of rows, and data_train  *)
(* and labels_train are the rows and labels the model was fitted on.       *)
C15_SnapshotsAfterFit ==
  (res.op = "fit" /\ res.out.status = "return")
  => /\ dec.data_train.set
     /\ dec.labels_train.set
     /\ dec.groups_train.set
     /\ Len(dec.data_train.v) = Len(dec.labels_train.v)
     /\ Len(dec.groups_train.v) = Len(dec.data_train.v)
     /\ dec.data_train.v = dec.model.X
     /\ dec.labels_train.v = dec.model.y

(* ------------------------------ save_model ---------------------------- *)
s_dot_pickle == <<".", "p", "i", "c", "k", "l", "e">>

RECURSIVE Flat(_)
(* the str of a sequence of characters *)
Flat(s) == IF s = <<>> THEN "" ELSE Head(s) \o Flat(Tail(s))

RECURSIVE Components(_, _)
(* the "/"-separated components of s, the one being read in cur *)
Components(s, cur) ==
  IF s = <<>> THEN <<cur>>
  ELSE IF Head(s) = "/" THEN <<cur>> \o Components(Tail(s), <<>>)
  ELSE Components(Tail(s), Append(cur, Head(s)))

RECURSIVE LeadingSlashes(_)
LeadingSlashes(s) ==
  IF s = <<>> \/ Head(s) # "/" THEN 0 ELSE 1 + LeadingSlashes(Tail(s))

(* Path(filename): the root ("", "/" or, for exactly two leading slashes, *)
(* "//") and the components that are neither empty nor "."                *)
Path(filename) ==
  LET n == LeadingSlashes(filename)
      all == Components(filename, <<>>)
  IN [root |-> IF n = 0 THEN <<>> ELSE IF n = 2 THEN <<"/", "/">> ELSE <<"/">>,
      parts |-> SelectSeq(all, LAMBDA c : c # <<>> /\ c # <<".">>)]

RECURSIVE JoinParts(_)
JoinParts(parts) ==
  IF parts = <<>> THEN <<>>
  ELSE IF Len(parts) = 1 THEN parts[1]
  ELSE parts[1] \o <<"/">> \o JoinParts(Tail(parts))

(* str(path) *)
PathStr(path) ==
  IF path.root = <<>> /\ path.parts = <<>> THEN <<".">>
  ELSE path.root \o JoinParts(path.parts)

(* path.name: the last component, "" when there is none *)
PathName(path) ==
  IF path.parts = <<>> THEN <<>> ELSE path.parts[Len(path.parts)]

(* name.rfind("."): 0-based, -1 when there is no dot *)
RFindDot(name) ==
  IF \E i \in DOMAIN name : name[i] = "."
  THEN (CHOOSE i \in DOMAIN name :
          name[i] = "." /\ \A j \in DOMAIN name : name[j] = "." => j <= i) - 1
  ELSE -1

(* path.suffix: name[i:] when 0 < i < len(name) - 1, else "" *)
PathSuffix(path) ==
  LET name == PathName(path)
      i == RFindDot(name)
  IN IF 0 < i /\ i < Len(name) - 1 THEN SubSeq(name, i + 1, Len(name))
     ELSE <<>>

with_suffix_appended(path, suffix) ==
  IF PathName(path) = <<>> THEN [ok |-> FALSE, path |-> path]
  ELSE [ok |-> TRUE,
        path |-> [path EXCEPT
                    !.parts[Len(path.parts)] = PathName(path) \o suffix]]

(* path.with_suffix(suffix): ValueError for an empty name; the old suffix *)
(* is cut off the name and the new one put in its place                   *)
with_suffix(path, suffix) ==
  IF PathName(path) = <<>> THEN [ok |-> FALSE, path |-> path]
  ELSE LET name == PathName(path)
           stem == SubSeq(name, 1, Len(name) - Len(PathSuffix(path)))
       IN [ok |-> TRUE,
           path |-> [path EXCEPT !.parts[Len(path.parts)] = stem \o suffix]]

OpenCall(path) == "open(" \o Flat(PathStr(path)) \o ", wb)"

(* LDA.save_model: the file is opened (created or emptied) before         *)
(* self.model is read; open itself can fail with OSError                  *)
LDA_save_model(self, filename) ==
  LET p == with_suffix(Path(filename), s_dot_pickle)
  IN IF ~ p.ok THEN {Raise("ValueError", NoneV, {}, <<>>)}
     ELSE {Raise("OSError", NoneV, {}, <<OpenCall(p.path), "raised OSError">>),
           IF ~ self.model.set
           THEN Raise("AttributeError", NoneV, {}, <<OpenCall(p.path)>>)
           ELSE Return(NoneV, <<OpenCall(p.path),
                                "pickle.dump(" \o self.model.cls \o ")">>)}

PathChars == {"a", ".", "/"}

Paths == UNION {[1..n -> PathChars] : n \in 0..MaxPathLen}

(* d.save_model(filename) *)
SaveModelCall ==
  /\ dec.exists
  /\ "save_model" \in MethodsDefined(dec.cls)
  /\ \E filename \in Paths :
       \E out \in LDA_save_model(dec, filename) :
         /\ res' = [out |-> out,
                    op |-> "save_model",
                    args |-> [self |-> dec, filename |-> filename]]
         /\ UNCHANGED dec

(* a linear-discriminant Decoder made, fitted and saved *)
NextSave ==
  \/ GetDecoderCall({s_lda}, {s_log_loss}, {NoneV})
  \/ FitCall
  \/ SaveModelCall

SpecSave == Init /\ [][NextSave]_vars

EndsWith(s, tail) ==
  Len(s) >= Len(tail) /\ SubSeq(s, Len(s) - Len(tail) + 1, Len(s)) = tail

(* the last component of a caller's path has no extension *)
ExtensionLess(filename) ==
  /\ PathName(Path(filename)) # <<>>
  /\ \A i \in DOMAIN PathName(Path(filename)) :
       PathName(Path(filename))[i] # "."

(* C11: whenever LDA.save_model opens a file, the file's name is a         *)
(* non-empty stem followed by ".pickle"; for a caller path whose last      *)
(* component has no extension the destination is that path with ".pickle"  *)
(* appended; normalizing the destination again gives the same destination; *)
(* and on a Decoder with a model the open is followed by the dump of that  *)
(* model unless open itself fails.                                          *)
C11_SaveModelSuffix ==
  (res.op = "save_model" /\ res.out.calls # <<>>)
  => LET given == Path(res.args.filename)
         dest == with_suffix(given, s_dot_pickle).path
     IN /\ res.out.calls[1] = OpenCall(dest)
        /\ EndsWith(PathName(dest), s_dot_pickle)
        /\ Len(PathName(dest)) > Len(s_dot_pickle)
        /\ PathSuffix(dest) = s_dot_pickle
        /\ ExtensionLess(res.args.filename)
           => PathStr(dest) = PathStr(given) \o s_dot_pickle
        /\ with_suffix(dest, s_dot_pickle) = [ok |-> TRUE, path |-> dest]
        /\ (res.args.self.model.set /\ res.out.status = "return")
           => res.out.calls =
                <<OpenCall(dest),
                  "pickle.dump(" \o res.args.self.model.cls \o ")">>
        /\ (res.args.self.model.set /\ res.out.status = "raise")
           => res.out.err.type = "OSError"

C11_Witness ==
  /\ res.op = "save_model"
  /\ res.args.filename = <<"a", "/", "a">>
  /\ res.args.self.model.fitted
  /\ res.out.status = "return"
  /\ res.out.calls[1] = "open(a/a.pickle, wb)"

(* --------------------- fit_and_predict of the backends ---------------- *)
(* the estimator each backend class constructs *)
Estimator(cls) ==
  CASE cls = "CATB" -> "CatBoostClassifier"
    [] cls = "LDA" -> "LinearDiscriminantAnalysis"
    [] cls = "LR" -> "LogisticRegression"
    [] cls = "Dummy" -> "DummyClassifier"
    [] cls = "QDA" -> "QuadraticDiscriminantAnalysis"
    [] cls = "XGB" -> "XGBClassifier"

(* train_size=0.8 of the outer validation split, in percent *)
ValTrainSize == 80

(* GroupShuffleSplit(n_splits=3, train_size=0.66) of _bo_tune, in percent *)
InnerTrainSize == 66

(* GroupKFold(n_splits=3) of XGB._bo_tune *)
InnerFolds == 3

(* the splitter of _bo_tune refuses the groups with ValueError *)
InnerSplitRefuses(cls, groups) ==
  IF cls = "XGB" THEN Cardinality(UniqueGroups(groups)) < InnerFolds
  ELSE NTrain(Cardinality(UniqueGroups(groups)), InnerTrainSize) = 0

(* self._bayesian_optimization(): the optimizer evaluates _bo_tune on the *)
(* snapshots and an estimator is built from the best parameters, or the   *)
(* search raises                                                          *)
bayesian_optimization(self) ==
  LET call == <<"BayesianOptimization.maximize">>
  IN {Raise("ValueError", NoneV, {}, call)}
     \cup (IF InnerSplitRefuses(self.cls, self.groups_train.v) THEN {}
           ELSE {Return(NewModel(Estimator(self.cls)),
                        call \o <<Estimator(self.cls)>>)})

(* a call under way: the Decoder so far, the calls made so far, and the   *)
(* local eval_set                                                          *)
Start(self) ==
  {[eval_set |-> <<>>, self |-> self, out |-> Return(NoneV, <<>>)]}

(* the runs of S an exception has ended, and those still under way *)
Stopped(S) == {r \in S : r.out.status = "raise"}

Running(S) == {r \in S : r.out.status # "raise"}

(* the call ends with the exception o *)
Fail(r, o) == [r EXCEPT !.out = [o EXCEPT !.calls = r.out.calls \o o.calls]]

Logged(r, calls) == [r EXCEPT !.out.calls = r.out.calls \o calls]

(* self.data_train = data_train; self.labels_train = labels;              *)
(* self.groups_train = groups                                              *)
SetSnapshots(S, data_train, labels, groups) ==
  Stopped(S)
  \cup {[r EXCEPT !.self.data_train = Val(data_train),
                  !.self.labels_train = Val(labels),
                  !.self.groups_train = Val(groups)] : r \in Running(S)}

(* self.model = <Estimator>(...) *)
ConstructModel(S) ==
  Stopped(S)
  \cup {[Logged(r, <<Estimator(r.self.cls)>>) EXCEPT
           !.self.model = NewModel(Estimator(r.self.cls))] : r \in Running(S)}

(* if self.optimize: self.model = self._bayesian_optimization()           *)
(* else: self.model = <Estimator>(...)                                     *)
TuneOrConstruct(S) ==
  Stopped(S)
  \cup ConstructModel({r \in Running(S) : ~ r.self.optimize})
  \cup UNION {{IF o.status = "raise" THEN Fail(r, o)
               ELSE [Logged(r, o.calls) EXCEPT !.self.model = o.value] :
                 o \in bayesian_optimization(r.self)} :
              r \in {x \in Running(S) : x.self.optimize}}

(* self.data_train, self.labels_train, eval_set =                         *)
(*   self._get_validation_split(self.data_train, self.labels_train,       *)
(*                              self.groups_train, train_size=0.8)        *)
SplitSnapshots(S, ndim) ==
  Stopped(S)
  \cup UNION {{IF o.status = "raise" THEN Fail(r, o)
               ELSE [Logged(r, o.calls) EXCEPT
                       !.self.data_train = Val(o.value.data_train),
                       !.self.labels_train = Val(o.value.labels_train),
                       !.eval_set = o.value.eval_set] :
                 o \in get_validation_split(r.self.data_train.v,
                                            r.self.labels_train.v, ndim,
                                            r.self.groups_train.v,
                                            ValTrainSize)} :
              r \in Running(S)}

BalanceInto_merging(S, data, labels) ==
  Stopped(S)
  \cup UNION {{IF o.status = "raise" THEN Fail(r, o)
               ELSE [Logged(r, o.calls) EXCEPT
                       !.self.data_train =
                          Val(r.self.data_train.v \o o.value.data),
                       !.self.labels_train =
                          Val(r.self.labels_train.v \o o.value.labels)] :
                 o \in balance_samples(data, labels, r.self.balancing)} :
              r \in Running(S)}

(* self.data_train, self.labels_train, sample_weight =                    *)
(*   self._balance_samples(data, labels, self.balancing)                  *)
BalanceInto(S, data, labels) ==
  Stopped(S)
  \cup UNION {{IF o.status = "raise" THEN Fail(r, o)
               ELSE [Logged(r, o.calls) EXCEPT
                       !.self.data_train = Val(o.value.data),
                       !.self.labels_train = Val(o.value.labels)] :
                 o \in balance_samples(data, labels, r.self.balancing)} :
              r \in Running(S)}

(* the same statement given self.data_train and self.labels_train *)
BalanceSnapshots(S) ==
  Stopped(S)
  \cup UNION {BalanceInto({r}, r.self.data_train.v, r.self.labels_train.v) :
                r \in Running(S)}

(* self.model.fit(self.data_train, self.labels_train, eval_set=eval_set)  *)
FitModel(S) ==
  Stopped(S)
  \cup UNION {{IF f.ok
               THEN [Logged(r, <<r.self.model.cls \o ".fit">>) EXCEPT
                       !.self.model = [f.model EXCEPT !.eval_set = r.eval_set]]
               ELSE Fail(r, Raise("ValueError", NoneV, {},
                                  <<r.self.model.cls \o ".fit">>)) :
                 f \in ModelFit(r.self.model, r.self.data_train.v,
                                r.self.labels_train.v)} :
              r \in Running(S)}

(* return self.model.predict(data_test) *)
PredictTest(S, data_test) ==
  Stopped(S)
  \cup {[r EXCEPT !.out =
           [ModelCall(r.self.model, "predict", data_test) EXCEPT
              !.calls = r.out.calls
                          \o ModelCall(r.self.model, "predict", data_test).calls]] :
          r \in Running(S)}

CATB_fit_and_predict(self, data_train, data_test, labels, ndim, groups) ==
  LET a == SetSnapshots(Start(self), data_train, labels, groups)
      b == TuneOrConstruct(a)
      c == SplitSnapshots(b, ndim)
      d == BalanceSnapshots(c)
      e == FitModel(d)
  IN PredictTest(e, data_test)

LR_fit_and_predict(self, data_train, data_test, labels, groups) ==
  LET a == SetSnapshots(Start(self), data_train, labels, groups)
      b == TuneOrConstruct(a)
      c == BalanceInto(b, data_train, labels)
      d == FitModel(c)
  IN PredictTest(d, data_test)

(* Dummy.fit_and_predict and QDA.fit_and_predict: the same statements     *)
(* around their own estimator                                              *)
Dummy_fit_and_predict(self, data_train, data_test, labels, groups) ==
  LET a == BalanceInto(Start(self), data_train, labels)
      b == ConstructModel(a)
      c == FitModel(b)
  IN PredictTest(c, data_test)

QDA_fit_and_predict(self, data_train, labels, data_test, groups) ==
  LET a == BalanceInto(Start(self), data_train, labels)
      b == ConstructModel(a)
      c == FitModel(b)
  IN PredictTest(c, data_test)

(* XGB.fit_and_predict: the balancer is given the parameters data_train   *)
(* and labels, not the snapshots the split has just cut down               *)
XGB_fit_and_predict(self, data_train, data_test, labels, ndim, groups) ==
  LET a == SetSnapshots(Start(self), data_train, labels, groups)
      b == TuneOrConstruct(a)
      c == SplitSnapshots(b, ndim)
      d == BalanceInto(c, data_train, labels)
      e == FitModel(d)
  IN PredictTest(e, data_test)

(* the fitting method of self's class on the dataset d *)
BackendFit(self, d, data_test) ==
  CASE self.cls = "CATB" ->
         CATB_fit_and_predict(self, d.data, data_test, d.labels, d.ndim, d.groups)
    [] self.cls = "LDA" -> LDA_fit(self, d.data, d.labels, d.groups)
    [] self.cls = "LR" ->
         LR_fit_and_predict(self, d.data, data_test, d.labels, d.groups)
    [] self.cls = "Dummy" ->
         Dummy_fit_and_predict(self, d.data, data_test, d.labels, d.groups)
    [] self.cls = "QDA" ->
         QDA_fit_and_predict(self, d.data, d.labels, data_test, d.groups)
    [] self.cls = "XGB" ->
         XGB_fit_and_predict(self, d.data, data_test, d.labels, d.ndim, d.groups)

(* A class derived from cls that defines the abstract methods: ABC        *)
(* instantiates it, and the inherited __init__ and __post_init__ run      *)
ConstructSubclass(cls, scoring, balancing, optimize) ==
  LET self == Decoder_init(cls, scoring, balancing, optimize)
      call == <<cls>>
  IN IF AbstractMethods \ (MethodsDefined(cls) \cup AbstractMethods) # {}
     THEN Raise("TypeError", NoneV, {}, call)
     ELSE IF post_init(self) # ""
     THEN Raise(post_init(self), NoneV, {}, call)
     ELSE Return(self, call)

BackendClasses == {classifiers[k] : k \in DOMAIN classifiers}

BackendBalancings == {Str(s_oversample), Str(s_bogus)}

(* datasets A (rows 1, 2, ...) and B (rows 11, 12, ...): labels alternate, *)
(* the rows are dealt to the MaxGroups groups two at a time; labels are a  *)
(* column (ndim 2), and for the largest A also a flat vector (ndim 1)      *)
BackendGroups(n) == [i \in 1..n |-> (((i - 1) \div 2) % MaxGroups) + 1]

BackendSets ==
  {[labels |-> [i \in 1..n |-> i % 2], data |-> [i \in 1..n |-> off + i],
    groups |-> BackendGroups(n), ndim |-> 2] :
     off \in {0, 10}, n \in 1..MaxFitRows}
  \cup {[labels |-> [i \in 1..MaxFitRows |-> i % 2],
         data |-> [i \in 1..MaxFitRows |-> i],
         groups |-> BackendGroups(MaxFitRows),
         ndim |-> 1]}

BackendTest == <<7>>

(* d = Sub(scoring=f, balancing=b, optimize=o), Sub derived from cls *)
SubclassCall ==
  \E cls \in BackendClasses, b \in BackendBalancings, o \in BOOLEAN :
    LET out == ConstructSubclass(cls, "_get_balanced_accuracy", b, o)
    IN /\ res' = [out |-> out,
                  op |-> "construct",
                  args |-> [cls |-> cls, scoring |-> "_get_balanced_accuracy",
                            balancing |-> b, optimize |-> o]]
       /\ dec' = IF out.status = "return" THEN out.value ELSE dec

(* d.fit(data_train, labels, groups), or                                  *)
(* d.fit_and_predict(data_train, data_test, labels, groups)               *)
BackendFitCall ==
  /\ dec.exists
  /\ \E d \in BackendSets :
       \E r \in BackendFit(dec, d, BackendTest) :
         /\ res' = [out |-> r.out,
                    op |-> IF "fit" \in MethodsDefined(dec.cls) THEN "fit"
                           ELSE "fit_and_predict",
                    args |-> [data_train |-> d.data, self |-> dec,
                              labels |-> d.labels, groups |-> d.groups,
                              data_test |-> BackendTest, ndim |-> d.ndim]]
         /\ dec' = r.self

(* the backends' own methods, on instances of derived classes *)
NextBackends ==
  \/ SubclassCall
  \/ BackendFitCall
  \/ GetScoreCall

SpecBackends == Init /\ [][NextBackends]_vars

(* the number of entries of the call log that are the call c *)
Count(calls, c) == Cardinality({i \in DOMAIN calls : calls[i] = c})

(* one evaluation of the scoring function on self's model *)
OneScore(self, args) ==
  [by |-> MetricOf(self.scoring), y_true |-> args.labels,
   y_pred |-> [model |-> self.model, data |-> args.data,
               by |-> MethodOf(self.scoring)]]

(* C12: on a fitted dummy-baseline Decoder get_score calls the scoring     *)
(* function exactly 100 times, each time on the same model, test data and  *)
(* labels, and returns the mean of the 100 values; on a fitted Decoder of  *)
(* any other backend it calls the scoring function once and returns its    *)
(* value; in both cases the Decoder is left as it was.                     *)
C12_DummyScoresHundredTimes ==
  (res.op = "get_score")
  => /\ dec = res.args.self
     /\ (dec.model.set /\ dec.model.fitted)
        => /\ res.out.status = "return"
           /\ IF dec.cls = "Dummy"
              THEN /\ Count(res.out.calls, MetricOf(dec.scoring)) = 100
                   /\ Len(res.out.calls) = 200
                   /\ Len(res.out.value.mean_of) = 100
                   /\ \A i \in 1..100 :
                        res.out.value.mean_of[i] = OneScore(dec, res.args)
              ELSE /\ Count(res.out.calls, MetricOf(dec.scoring)) = 1
                   /\ Len(res.out.calls) = 2
                   /\ res.out.value = OneScore(dec, res.args)

C12_Witness ==
  /\ res.op = "get_score"
  /\ dec.cls = "Dummy"
  /\ dec.model.fitted
  /\ res.out.status = "return"
  /\ Len(res.out.value.mean_of) = 100

(* the position of the first entry c of the call log, 0 when absent *)
FirstAt(calls, c) ==
  IF \E i \in DOMAIN calls : calls[i] = c
  THEN CHOOSE i \in DOMAIN calls :
         calls[i] = c /\ \A j \in DOMAIN calls : calls[j] = c => i <= j
  ELSE 0

(* C13: when fit_and_predict of CATB or XGB returns, the model was         *)
(* constructed before the split, the split was made before the fit, the    *)
(* model was given exactly one held-out pair, and no row of that pair is   *)
(* among the rows the model was fitted on: every fitted row is a row of    *)
(* the training partition or a synthetic row.                              *)
C13_BoostingFitsTrainingPartition ==
  (/\ res.op = "fit_and_predict"
   /\ dec.cls \in {"CATB", "XGB"}
   /\ res.out.status = "return")
  => LET calls == res.out.calls
         ev == dec.model.eval_set
     IN /\ 0 < FirstAt(calls, Estimator(dec.cls))
        /\ FirstAt(calls, Estimator(dec.cls))
             < FirstAt(calls, "GroupShuffleSplit.split")
        /\ FirstAt(calls, "GroupShuffleSplit.split")
             < FirstAt(calls, Estimator(dec.cls) \o ".fit")
        /\ Len(ev) = 1
        /\ RowsOf(dec.model.X) \cap RowsOf(ev[1].data_val) = {}
        /\ RowsOf(dec.model.X) \ {0}
             \subseteq RowsOf(res.args.data_train) \ RowsOf(ev[1].data_val)

(* the call assigned self.model: its estimator was constructed *)
ModelAssigned(self, out) == FirstAt(out.calls, Estimator(self.cls)) > 0

(* C14: a fit or fit_and_predict that raises before self.model is          *)
(* assigned leaves model, data_train, labels_train and groups_train as     *)
(* they were before the call.                                              *)
C14_FailedFitLeavesState ==
  (/\ res.op \in {"fit", "fit_and_predict"}
   /\ res.out.status = "raise"
   /\ ~ ModelAssigned(dec, res.out))
  => /\ dec.model = res.args.self.model
     /\ dec.data_train = res.args.self.data_train
     /\ dec.labels_train = res.args.self.labels_train
     /\ dec.groups_train = res.args.self.groups_train

(* C16: a fit or fit_and_predict that returns leaves the Decoder, and      *)
(* returns the value, that the same call on a newly constructed Decoder of *)
(* the same class and configuration can leave and return, whatever the     *)
(* Decoder was fitted on before; the snapshots and the model hold only     *)
(* rows of the dataset of this call and synthetic rows.                    *)
C16_RefitReplacesState ==
  (res.op \in {"fit", "fit_and_predict"} /\ res.out.status = "return")
  => LET a == res.args
         fresh == Decoder_init(dec.cls, dec.scoring, dec.balancing, dec.optimize)
         d == [labels |-> a.labels, data |-> a.data_train, groups |-> a.groups,
               ndim |-> a.ndim]
     IN /\ \E r \in BackendFit(fresh, d, a.data_test) :
             r.self = dec /\ r.out = res.out
        /\ RowsOf(dec.data_train.v) \subseteq RowsOf(a.data_train) \cup {0}
        /\ RowsOf(dec.model.X) \subseteq RowsOf(a.data_train) \cup {0}
        /\ dec.model.fitted

C16_Witness ==
  /\ res.op = "fit_and_predict"
  /\ dec.cls = "LR"
  /\ res.out.status = "return"
  /\ res.args.self.model.fitted
  /\ res.args.self.data_train.v = <<1, 2, 3, 2>>
  /\ dec.data_train.v = <<11, 12>>

====
